---- MODULE Spec2Model ----
(***************************************************************************)
(* Model of vg's GAMSorter (src/src/gamsorter.cpp): the ordering over      *)
(* Positions and Alignments, get_min_position, the in-memory sort, and the *)
(* external sort stream_sort (spill sorted batches to temporary files,     *)
(* k-way merge through a priority queue of cursors, batched output).       *)
(***************************************************************************)
EXTENDS Integers, Sequences, FiniteSets, TLC

VARIABLES
    gam_in,          \* the records of the input stream, in stream order
    in_pos,          \* how many records stream::for_each has delivered
    max_buf_size,    \* GAMSorter::max_buf_size, the batch size B
    input_buffer,    \* vector<Alignment> input_buffer
    temp_file_names, \* vector<string> temp_file_names (a name is a number)
    files,           \* temporary storage: files[name] = records in the file
    temp_cursors,    \* list<cursor_t>: [file |-> name, idx |-> read position,
                     \*   good |-> whether its ifstream could be opened]
    temp_files,      \* the priority queue's container of cursor pointers
    output_buffer,   \* vector<Alignment> output_buffer
    gam_out,         \* the output stream: the sequence of groups written
    pc,              \* position in stream_sort, or in a call of a pure function
    args,            \* the three Positions handed to the comparison functions
    path,            \* the Path handed to get_min_position
    ret,             \* the values the called functions returned
    sort_buffer,     \* dumb_sort: vector<Alignment> sort_buffer
    out_buffer,      \* dumb_sort: vector<Alignment> out_buffer
    dumb_gam_out     \* dumb_sort: its output stream, the groups written

pipeVars == <<gam_in, in_pos, max_buf_size, input_buffer, temp_file_names,
              files, temp_cursors, temp_files, output_buffer, gam_out>>
fnVars == <<args, path, ret>>
dumbVars == <<sort_buffer, out_buffer, dumb_gam_out>>
vars == <<pipeVars, pc, fnVars, dumbVars>>

----------------------------------------------------------------------------
(* Bounds *)

MaxNodeId == 2
MaxOffset == 1
MaxPathLen == 3
MaxInputLen == 5
MaxBufSize == 3
MaxEmit == 3000
MaxLiveInputLen == 4
MaxBothInputLen == 4

----------------------------------------------------------------------------
(* Data model *)

Position(n, r, o) == [node_id |-> n, is_reverse |-> r, offset |-> o]

\* Position(): the protobuf default value, all fields zero
DefaultPosition == Position(0, FALSE, 0)

Positions == {Position(n, r, o) : n \in 0..MaxNodeId, r \in BOOLEAN, o \in 0..MaxOffset}

\* a Path is the sequence of the positions of its mappings
Paths == UNION {[1..n -> Positions] : n \in 0..MaxPathLen}

\* C++ compares bools after promotion to int: false is 0, true is 1
BoolToInt(x) == IF x THEN 1 ELSE 0

----------------------------------------------------------------------------
(* Ordering over Positions *)

equal_to(a, b) ==
    /\ a.node_id = b.node_id
    /\ a.is_reverse = b.is_reverse
    /\ a.offset = b.offset

less_than_no_orientation(a, b) ==
    IF a.node_id < b.node_id THEN TRUE
    ELSE IF a.node_id > b.node_id THEN FALSE
    ELSE IF a.offset < b.offset THEN TRUE
    ELSE FALSE

less_than_offset_le(a, b) ==
    IF a.node_id < b.node_id THEN TRUE
    ELSE IF a.node_id > b.node_id THEN FALSE
    ELSE IF BoolToInt(a.is_reverse) < BoolToInt(b.is_reverse) THEN TRUE
    ELSE IF BoolToInt(a.is_reverse) > BoolToInt(b.is_reverse) THEN FALSE
    ELSE IF a.offset <= b.offset THEN TRUE
    ELSE FALSE

less_than(a, b) ==
    IF a.node_id < b.node_id THEN TRUE
    ELSE IF a.node_id > b.node_id THEN FALSE
    ELSE IF BoolToInt(a.is_reverse) < BoolToInt(b.is_reverse) THEN TRUE
    ELSE IF BoolToInt(a.is_reverse) > BoolToInt(b.is_reverse) THEN FALSE
    ELSE IF a.offset < b.offset THEN TRUE
    ELSE FALSE

greater_than_orientation_swapped(a, b) ==
    IF a.node_id > b.node_id THEN TRUE
    ELSE IF a.node_id < b.node_id THEN FALSE
    ELSE IF BoolToInt(a.is_reverse) < BoolToInt(b.is_reverse) THEN TRUE
    ELSE IF BoolToInt(a.is_reverse) > BoolToInt(b.is_reverse) THEN FALSE
    ELSE IF a.offset > b.offset THEN TRUE
    ELSE FALSE

greater_than(a, b) ==
    IF a.node_id > b.node_id THEN TRUE
    ELSE IF a.node_id < b.node_id THEN FALSE
    ELSE IF BoolToInt(a.is_reverse) > BoolToInt(b.is_reverse) THEN TRUE
    ELSE IF BoolToInt(a.is_reverse) < BoolToInt(b.is_reverse) THEN FALSE
    ELSE IF a.offset > b.offset THEN TRUE
    ELSE FALSE

----------------------------------------------------------------------------
(* get_min_position *)

\* the loop "for (i = 1; i < mapping_size; i++)" over 0-based mappings:
\* i is the 1-based index of the next mapping to look at, min the minimum so far
RECURSIVE min_loop(_, _, _)
min_loop(p, i, min) ==
    IF i > Len(p) THEN min
    ELSE min_loop(p, i + 1, IF less_than(p[i], min) THEN p[i] ELSE min)

get_min_position_unmapped_last(p) ==
    IF Len(p) = 0 THEN Position(MaxNodeId + 1, FALSE, 0)
    ELSE min_loop(p, 2, p[1])

get_min_position_first_only(p) ==
    IF Len(p) = 0 THEN DefaultPosition ELSE p[1]

get_min_position(p) ==
    IF Len(p) = 0 THEN DefaultPosition
    ELSE min_loop(p, 2, p[1])

\* an Alignment is modelled by its path, the only field the sorter reads
get_min_position_Alignment(aln) == get_min_position(aln)

less_than_Alignment(x, y) ==
    less_than(get_min_position_Alignment(x), get_min_position_Alignment(y))

----------------------------------------------------------------------------
(* The records of the pipeline runs *)

EmptyPathAln == <<>>
AlnA == <<Position(1, FALSE, 1)>>
AlnB == <<Position(1, TRUE, 0), Position(1, FALSE, 1)>>
AlnC == <<Position(1, TRUE, 0)>>

\* an unaligned record, two records with the same key (1, false, 1), one of
\* them with its minimum in the second mapping, and a record with a larger key
Alignments == {EmptyPathAln, AlnA, AlnB, AlnC}

SeqsUpTo(S, n) == UNION {[1..k -> S] : k \in 0..n}

----------------------------------------------------------------------------
(* GAMSorter::sort: std::sort with less_than over Alignments *)

IsSorted(s) == \A i \in 1..(Len(s) - 1) : ~less_than_Alignment(s[i + 1], s[i])

Reorderings(s) ==
    {[i \in 1..Len(s) |-> s[p[i]]] : p \in Permutations(1..Len(s))}

\* std::sort is not stable: the result is some reordering of alns that is
\* sorted under the comparator; the set of the results it may leave in alns
sort_descending(alns) ==
    {s \in Reorderings(alns) :
        \A i \in 1..(Len(s) - 1) : ~less_than_Alignment(s[i], s[i + 1])}

sort_noop(alns) == {alns}

sort(alns) == {s \in Reorderings(alns) : IsSorted(s)}

----------------------------------------------------------------------------
(* Collaborators: stream::write_buffered, stream::ProtobufIterator *)

\* write_buffered(out, buffer, limit): once the buffer holds at least limit
\* records, write them all as one group and clear the buffer.
\* The stream and the buffer after the call.
write_buffered(out, buffer, limit) ==
    IF Len(buffer) >= limit
    THEN [out |-> Append(out, buffer), buffer |-> <<>>]
    ELSE [out |-> out, buffer |-> buffer]

\* the records of a stream of groups, in order
RECURSIVE Records(_)
Records(groups) ==
    IF groups = <<>> THEN <<>>
    ELSE Records(SubSeq(groups, 1, Len(groups) - 1)) \o groups[Len(groups)]

\* ProtobufIterator over files[c.file]: has_next, operator* and get_next.
\* Nothing can be read from an ifstream whose open failed: its cursor has no
\* current record.
has_next(c) == c.good /\ c.idx <= Len(files[c.file])
deref(c) == files[c.file][c.idx]
get_next(c) == [c EXCEPT !.idx = @ + 1]

\* the threshold of the merge loop's write_buffered call
WriteBufferLimit == 1000

----------------------------------------------------------------------------
(* stream_sort *)

\* the comparator of the priority queue, over cursors a and b
cursor_order_not_reversed(a, b) ==
    IF has_next(b)
    THEN IF ~has_next(a) THEN TRUE
         ELSE less_than_Alignment(deref(a), deref(b))
    ELSE FALSE

cursor_order_ignores_keys(a, b) ==
    IF has_next(b)
    THEN IF ~has_next(a) THEN TRUE
         ELSE FALSE
    ELSE FALSE

cursor_order(a, b) ==
    IF has_next(b)
    THEN IF ~has_next(a) THEN TRUE
         ELSE less_than_Alignment(deref(b), deref(a))
    ELSE FALSE

\* priority_queue::top() is an element of the container that is not ordered
\* before any other one by the comparator; which one among equivalent
\* elements is unspecified. q holds indices into temp_cursors.
IsTop(q, i) ==
    \A j \in 1..Len(q) : ~cursor_order(temp_cursors[q[i]], temp_cursors[q[j]])

RemoveAt(q, i) == SubSeq(q, 1, i - 1) \o SubSeq(q, i + 1, Len(q))

\* the lambda finish_buffer: sort the batch, create a temporary file, write
\* the batch to it as one group, clear the batch
finish_buffer(sorted, next_pc) ==
    LET temp_name == Len(files) + 1
    IN /\ temp_file_names' = Append(temp_file_names, temp_name)
       /\ files' = Append(files, Records(write_buffered(<<>>, sorted, 0).out))
       /\ input_buffer' = <<>>
       /\ pc' = next_pc

\* the callback with the test "size() > max_buf_size"
ReadRecordFlushWhenOver ==
    /\ pc = "read"
    /\ in_pos < Len(gam_in)
    /\ in_pos' = in_pos + 1
    /\ LET buffered == Append(input_buffer, gam_in[in_pos + 1])
       IN IF Len(buffered) > max_buf_size
          THEN \E sorted \in sort(buffered) : finish_buffer(sorted, "read")
          ELSE /\ input_buffer' = buffered
               /\ UNCHANGED <<temp_file_names, files, pc>>
    /\ UNCHANGED <<gam_in, max_buf_size, temp_cursors, temp_files,
                   output_buffer, gam_out, fnVars, dumbVars>>

\* the callback of stream::for_each for one input record
ReadRecord ==
    /\ pc = "read"
    /\ in_pos < Len(gam_in)
    /\ in_pos' = in_pos + 1
    /\ LET buffered == Append(input_buffer, gam_in[in_pos + 1])
       IN IF Len(buffered) = max_buf_size
          THEN \E sorted \in sort(buffered) : finish_buffer(sorted, "read")
          ELSE /\ input_buffer' = buffered
               /\ UNCHANGED <<temp_file_names, files, pc>>
    /\ UNCHANGED <<gam_in, max_buf_size, temp_cursors, temp_files,
                   output_buffer, gam_out, fnVars, dumbVars>>

\* the input is exhausted: the call of finish_buffer after the loop
FinishInput ==
    /\ pc = "read"
    /\ in_pos = Len(gam_in)
    /\ \E sorted \in sort(input_buffer) : finish_buffer(sorted, "open")
    /\ UNCHANGED <<gam_in, in_pos, max_buf_size, temp_cursors, temp_files,
                   output_buffer, gam_out, fnVars, dumbVars>>

\* one iteration of the loop over temp_file_names: open the file, make a
\* cursor on its first record, push the cursor's address on the queue
OpenTempFile ==
    /\ pc = "open"
    /\ Len(temp_cursors) < Len(temp_file_names)
    /\ LET name == temp_file_names[Len(temp_cursors) + 1]
       IN temp_cursors' = Append(temp_cursors,
                              [file |-> name, idx |-> 1, good |-> TRUE])
    /\ temp_files' = Append(temp_files, Len(temp_cursors) + 1)
    /\ UNCHANGED <<gam_in, in_pos, max_buf_size, input_buffer, temp_file_names,
                   files, output_buffer, gam_out, pc, fnVars, dumbVars>>

\* the same iteration when open(name) fails: the code does not test the
\* stream, makes the cursor on it, reports "File is empty!" and pushes it
OpenTempFileError ==
    /\ pc = "open"
    /\ Len(temp_cursors) < Len(temp_file_names)
    /\ LET name == temp_file_names[Len(temp_cursors) + 1]
       IN temp_cursors' = Append(temp_cursors,
                              [file |-> name, idx |-> 1, good |-> FALSE])
    /\ temp_files' = Append(temp_files, Len(temp_cursors) + 1)
    /\ UNCHANGED <<gam_in, in_pos, max_buf_size, input_buffer, temp_file_names,
                   files, output_buffer, gam_out, pc, fnVars, dumbVars>>

\* every file has its cursor: go on to the merge loop
StartMerge ==
    /\ pc = "open"
    /\ Len(temp_cursors) = Len(temp_file_names)
    /\ pc' = "merge"
    /\ UNCHANGED <<pipeVars, fnVars, dumbVars>>

\* one iteration of the merge loop
MergeStepNoReinsert ==
    /\ pc = "merge"
    /\ \E i \in 1..Len(temp_files) :
          /\ IsTop(temp_files, i)
          /\ has_next(temp_cursors[temp_files[i]])
          /\ LET winner == temp_files[i]
                 w == write_buffered(gam_out,
                          Append(output_buffer, deref(temp_cursors[winner])),
                          WriteBufferLimit)
             IN /\ gam_out' = w.out
                /\ output_buffer' = w.buffer
                /\ temp_cursors' =
                      [temp_cursors EXCEPT ![winner] = get_next(@)]
                /\ temp_files' = RemoveAt(temp_files, i)
    /\ UNCHANGED <<gam_in, in_pos, max_buf_size, input_buffer, temp_file_names,
                   files, pc, fnVars, dumbVars>>

\* an iteration that reads top() and never calls pop()
MergeStepNoPop ==
    /\ pc = "merge"
    /\ \E i \in 1..Len(temp_files) :
          /\ IsTop(temp_files, i)
          /\ has_next(temp_cursors[temp_files[i]])
          /\ LET winner == temp_files[i]
                 w == write_buffered(gam_out,
                          Append(output_buffer, deref(temp_cursors[winner])),
                          WriteBufferLimit)
                 advanced == get_next(temp_cursors[winner])
             IN /\ gam_out' = w.out
                /\ output_buffer' = w.buffer
                /\ temp_cursors' = [temp_cursors EXCEPT ![winner] = advanced]
                /\ temp_files' =
                      IF has_next(advanced)
                      THEN Append(temp_files, winner)
                      ELSE temp_files
    /\ UNCHANGED <<gam_in, in_pos, max_buf_size, input_buffer, temp_file_names,
                   files, pc, fnVars, dumbVars>>

\* an iteration that calls get_next twice
MergeStepAdvanceTwice ==
    /\ pc = "merge"
    /\ \E i \in 1..Len(temp_files) :
          /\ IsTop(temp_files, i)
          /\ has_next(temp_cursors[temp_files[i]])
          /\ LET winner == temp_files[i]
                 w == write_buffered(gam_out,
                          Append(output_buffer, deref(temp_cursors[winner])),
                          WriteBufferLimit)
                 advanced == get_next(get_next(temp_cursors[winner]))
             IN /\ gam_out' = w.out
                /\ output_buffer' = w.buffer
                /\ temp_cursors' = [temp_cursors EXCEPT ![winner] = advanced]
                /\ temp_files' =
                      IF has_next(advanced)
                      THEN Append(RemoveAt(temp_files, i), winner)
                      ELSE RemoveAt(temp_files, i)
    /\ UNCHANGED <<gam_in, in_pos, max_buf_size, input_buffer, temp_file_names,
                   files, pc, fnVars, dumbVars>>

\* the merge loop without the test of top()->has_next(): operator* of a
\* cursor without a current record yields a default Alignment
MergeStepNoHasNextTest ==
    /\ pc = "merge"
    /\ \E i \in 1..Len(temp_files) :
          /\ IsTop(temp_files, i)
          /\ LET winner == temp_files[i]
                 current == IF has_next(temp_cursors[winner])
                            THEN deref(temp_cursors[winner])
                            ELSE EmptyPathAln
                 w == write_buffered(gam_out, Append(output_buffer, current),
                                     WriteBufferLimit)
                 advanced == get_next(temp_cursors[winner])
             IN /\ gam_out' = w.out
                /\ output_buffer' = w.buffer
                /\ temp_cursors' = [temp_cursors EXCEPT ![winner] = advanced]
                /\ temp_files' =
                      IF has_next(advanced)
                      THEN Append(RemoveAt(temp_files, i), winner)
                      ELSE RemoveAt(temp_files, i)
    /\ UNCHANGED <<gam_in, in_pos, max_buf_size, input_buffer, temp_file_names,
                   files, pc, fnVars, dumbVars>>

MergeStep ==
    /\ pc = "merge"
    /\ \E i \in 1..Len(temp_files) :
          /\ IsTop(temp_files, i)
          /\ has_next(temp_cursors[temp_files[i]])
          /\ LET winner == temp_files[i]
                 w == write_buffered(gam_out,
                          Append(output_buffer, deref(temp_cursors[winner])),
                          WriteBufferLimit)
                 advanced == get_next(temp_cursors[winner])
             IN /\ gam_out' = w.out
                /\ output_buffer' = w.buffer
                /\ temp_cursors' = [temp_cursors EXCEPT ![winner] = advanced]
                /\ temp_files' =
                      IF has_next(advanced)
                      THEN Append(RemoveAt(temp_files, i), winner)
                      ELSE RemoveAt(temp_files, i)
    /\ UNCHANGED <<gam_in, in_pos, max_buf_size, input_buffer, temp_file_names,
                   files, pc, fnVars, dumbVars>>

\* the loop condition is false: the final write_buffered with limit 0
MergeFinishNotForced ==
    /\ pc = "merge"
    /\ \A i \in 1..Len(temp_files) :
          IsTop(temp_files, i) => ~has_next(temp_cursors[temp_files[i]])
    /\ LET w == write_buffered(gam_out, output_buffer, WriteBufferLimit)
       IN /\ gam_out' = w.out
          /\ output_buffer' = w.buffer
    /\ pc' = "done"
    /\ UNCHANGED <<gam_in, in_pos, max_buf_size, input_buffer, temp_file_names,
                   files, temp_cursors, temp_files, fnVars, dumbVars>>

MergeFinish ==
    /\ pc = "merge"
    /\ \A i \in 1..Len(temp_files) :
          IsTop(temp_files, i) => ~has_next(temp_cursors[temp_files[i]])
    /\ LET w == write_buffered(gam_out, output_buffer, 0)
       IN /\ gam_out' = w.out
          /\ output_buffer' = w.buffer
    /\ pc' = "done"
    /\ UNCHANGED <<gam_in, in_pos, max_buf_size, input_buffer, temp_file_names,
                   files, temp_cursors, temp_files, fnVars, dumbVars>>

\* no call of a pure function is in progress during a pipeline run
NoCall ==
    /\ args = <<DefaultPosition, DefaultPosition, DefaultPosition>>
    /\ path = <<>>
    /\ ret = [call |-> "none"]

\* the locals and the output stream of dumb_sort at its entry
DumbEntry ==
    /\ sort_buffer = <<>>
    /\ out_buffer = <<>>
    /\ dumb_gam_out = <<>>

\* the locals of stream_sort at its entry
Entry ==
    /\ in_pos = 0
    /\ input_buffer = <<>>
    /\ temp_file_names = <<>>
    /\ files = <<>>
    /\ temp_cursors = <<>>
    /\ temp_files = <<>>
    /\ output_buffer = <<>>
    /\ gam_out = <<>>

Init ==
    /\ gam_in \in SeqsUpTo(Alignments, MaxInputLen)
    /\ max_buf_size \in 1..MaxBufSize
    /\ Entry
    /\ pc = "read"
    /\ NoCall
    /\ DumbEntry

Next ==
    \/ ReadRecord
    \/ FinishInput
    \/ OpenTempFile
    \/ StartMerge
    \/ MergeStep
    \/ MergeFinish

Spec == Init /\ [][Next]_vars

\* stream_sort is sequential code: while it has a next step, it takes it
InitLive ==
    /\ gam_in \in SeqsUpTo(Alignments, MaxLiveInputLen)
    /\ max_buf_size \in 1..MaxBufSize
    /\ Entry
    /\ pc = "read"
    /\ NoCall
    /\ DumbEntry

SpecLive == InitLive /\ [][Next]_vars /\ WF_vars(Next)

\* stream_sort on storage where opening a temporary file for reading may fail
NextStorageError ==
    \/ Next
    \/ OpenTempFileError

SpecStorageError == Init /\ [][NextStorageError]_vars

----------------------------------------------------------------------------
(* Calls of the pure functions, on inputs drawn from the bounded sets *)

\* stream_sort is not running
Idle ==
    /\ gam_in = <<>>
    /\ max_buf_size = 1
    /\ Entry

InitOrd ==
    /\ Idle
    /\ DumbEntry
    /\ ret = [call |-> "none"]
    /\ \/ /\ pc = "compare"
          /\ args \in [1..3 -> Positions]
          /\ path = <<>>
       \/ /\ pc = "get_min_position"
          /\ args = <<DefaultPosition, DefaultPosition, DefaultPosition>>
          /\ path \in Paths

\* equal_to, less_than and greater_than applied to every pair of the arguments
Compare ==
    /\ pc = "compare"
    /\ ret' = [call |-> "compare",
               equal_to |->
                   [i \in 1..3 |-> [j \in 1..3 |-> equal_to(args[i], args[j])]],
               less_than |->
                   [i \in 1..3 |-> [j \in 1..3 |-> less_than(args[i], args[j])]],
               greater_than |->
                   [i \in 1..3 |-> [j \in 1..3 |-> greater_than(args[i], args[j])]]]
    /\ pc' = "returned"
    /\ UNCHANGED <<pipeVars, args, path, dumbVars>>

\* get_min_position applied to the path
GetMinPosition ==
    /\ pc = "get_min_position"
    /\ ret' = [call |-> "get_min_position", min |-> get_min_position(path)]
    /\ pc' = "returned"
    /\ UNCHANGED <<pipeVars, args, path, dumbVars>>

NextOrd ==
    \/ Compare
    \/ GetMinPosition

SpecOrd == InitOrd /\ [][NextOrd]_vars

\* runs of stream_sort together with calls of the pure functions
InitKeys == Init \/ InitOrd

NextKeys == Next \/ NextOrd

SpecKeys == InitKeys /\ [][NextKeys]_vars

----------------------------------------------------------------------------
(* The merge and the output batching over one long run *)

\* the numbers of records merged: around the threshold, and the 2500 of the
\* flush scenario
RunLens == {0, 1, WriteBufferLimit - 1, WriteBufferLimit, WriteBufferLimit + 1,
            2 * WriteBufferLimit, 2 * WriteBufferLimit + 500, MaxEmit}

\* stream_sort at the start of its merge loop, after it read n copies of one
\* record with a batch size above n: one sorted file, its cursor in the queue
InitBatch ==
    /\ \E n \in RunLens, aln \in {EmptyPathAln, AlnB} :
          /\ gam_in = [i \in 1..n |-> aln]
          /\ in_pos = n
          /\ max_buf_size = n + 1
          /\ files = <<gam_in>>
    /\ input_buffer = <<>>
    /\ temp_file_names = <<1>>
    /\ temp_cursors = <<[file |-> 1, idx |-> 1, good |-> TRUE]>>
    /\ temp_files = <<1>>
    /\ output_buffer = <<>>
    /\ gam_out = <<>>
    /\ pc = "merge"
    /\ NoCall
    /\ DumbEntry

NextBatch ==
    \/ MergeStep
    \/ MergeFinish

SpecBatch == InitBatch /\ [][NextBatch]_vars

----------------------------------------------------------------------------
(* dumb_sort, and both sorts run on the same input *)

\* the callback of stream::for_each: every record goes to sort_buffer
DumbReadRecord ==
    /\ pc = "dumb_read"
    /\ Len(sort_buffer) < Len(gam_in)
    /\ sort_buffer' = Append(sort_buffer, gam_in[Len(sort_buffer) + 1])
    /\ UNCHANGED <<pipeVars, pc, fnVars, out_buffer, dumb_gam_out>>

\* the input is exhausted: this->sort(sort_buffer)
DumbSortBufferSkipped ==
    /\ pc = "dumb_read"
    /\ Len(sort_buffer) = Len(gam_in)
    /\ pc' = "dumb_write"
    /\ UNCHANGED <<pipeVars, fnVars, dumbVars>>

DumbSortBuffer ==
    /\ pc = "dumb_read"
    /\ Len(sort_buffer) = Len(gam_in)
    /\ sort_buffer' \in sort(sort_buffer)
    /\ pc' = "dumb_write"
    /\ UNCHANGED <<pipeVars, fnVars, out_buffer, dumb_gam_out>>

\* the records of sort_buffer the write loop has passed
DumbWritten == Len(Records(dumb_gam_out)) + Len(out_buffer)

\* one iteration of the write loop: push_back and write_buffered with 1000
DumbWriteRecord ==
    /\ pc = "dumb_write"
    /\ DumbWritten < Len(sort_buffer)
    /\ LET w == write_buffered(dumb_gam_out,
                    Append(out_buffer, sort_buffer[DumbWritten + 1]),
                    WriteBufferLimit)
       IN /\ dumb_gam_out' = w.out
          /\ out_buffer' = w.buffer
    /\ UNCHANGED <<pipeVars, pc, fnVars, sort_buffer>>

\* after the write loop: write_buffered with limit 0
DumbFinish ==
    /\ pc = "dumb_write"
    /\ DumbWritten = Len(sort_buffer)
    /\ LET w == write_buffered(dumb_gam_out, out_buffer, 0)
       IN /\ dumb_gam_out' = w.out
          /\ out_buffer' = w.buffer
    /\ pc' = "dumb_done"
    /\ UNCHANGED <<pipeVars, fnVars, sort_buffer>>

\* dumb_sort has returned: stream_sort is called on the same input
CallStreamSort ==
    /\ pc = "dumb_done"
    /\ pc' = "read"
    /\ UNCHANGED <<pipeVars, fnVars, dumbVars>>

InitBoth ==
    /\ gam_in \in SeqsUpTo(Alignments, MaxBothInputLen)
    /\ max_buf_size \in 1..MaxBufSize
    /\ Entry
    /\ pc = "dumb_read"
    /\ NoCall
    /\ DumbEntry

NextBoth ==
    \/ DumbReadRecord
    \/ DumbSortBuffer
    \/ DumbWriteRecord
    \/ DumbFinish
    \/ CallStreamSort
    \/ Next

SpecBoth == InitBoth /\ [][NextBoth]_vars

----------------------------------------------------------------------------
(* Properties *)

\* the records written to the output stream so far
Out == Records(gam_out)

\* the derived key of every record of a sequence
Keys(s) == [i \in 1..Len(s) |-> get_min_position_Alignment(s[i])]

Count(r, s) == Cardinality({i \in 1..Len(s) : s[i] = r})

\* the keys ks in non-decreasing order: repeatedly take out a least one
RECURSIVE KeysInOrder(_)
KeysInOrder(ks) ==
    IF ks = <<>> THEN <<>>
    ELSE LET i == CHOOSE i \in 1..Len(ks) :
                      \A j \in 1..Len(ks) : ~less_than(ks[j], ks[i])
         IN <<ks[i]>> \o KeysInOrder(RemoveAt(ks, i))

\* the number of records the cursors have been advanced over
RECURSIVE Advanced(_)
Advanced(cursors) ==
    IF cursors = <<>> THEN 0
    ELSE (cursors[Len(cursors)].idx - 1)
         + Advanced(SubSeq(cursors, 1, Len(cursors) - 1))

Ceil(n, d) == (n + d - 1) \div d

\* C1: the records written to the output stream are in non-decreasing order
\* of their derived keys: no record is less_than the record written before it.
Thm_C1_OutputSorted ==
    \A i \in 1..(Len(Out) - 1) : ~less_than_Alignment(Out[i + 1], Out[i])

\* an unsorted input of five records with three different keys, spilled to at
\* least three files, merged and written
Wit_C1_MergedUnsortedInput ==
    /\ pc = "done"
    /\ Len(Out) = 5
    /\ Len(temp_file_names) >= 3
    /\ ~IsSorted(gam_in)
    /\ Cardinality({Keys(gam_in)[i] : i \in 1..Len(gam_in)}) >= 3

\* C2: when stream_sort has finished, the output holds every record exactly
\* as many times as the input does, and nothing else.
Thm_C2_SameMultiset ==
    pc = "done" =>
        /\ Len(Out) = Len(gam_in)
        /\ \A r \in Alignments : Count(r, Out) = Count(r, gam_in)

\* an input with a repeated record and two records of equal key, spilled to
\* several files with records in them
Wit_C2_DuplicatesMerged ==
    /\ pc = "done"
    /\ Len(gam_in) >= 4
    /\ Count(AlnB, gam_in) >= 2
    /\ Count(AlnA, gam_in) >= 1
    /\ Cardinality({f \in 1..Len(files) : Len(files[f]) > 0}) >= 2
    /\ Len(Out) = Len(gam_in)

\* C3: on an empty input stream_sort creates no temporary file and writes no
\* record.
CE_C3_EmptyInputNoRuns ==
    (pc = "done" /\ gam_in = <<>>) =>
        /\ temp_file_names = <<>>
        /\ files = <<>>
        /\ Out = <<>>

\* C4: for n >= 1 input records the run producer creates ceil(n / B) files,
\* all but the last of B records and the last of 1 to B records.
CE_C4_CeilRuns ==
    (pc \in {"open", "merge", "done"} /\ Len(gam_in) >= 1) =>
        /\ Len(files) = Ceil(Len(gam_in), max_buf_size)
        /\ \A f \in 1..(Len(files) - 1) : Len(files[f]) = max_buf_size
        /\ Len(files[Len(files)]) \in 1..max_buf_size

\* C5: with e records emitted by the merge loop, the output stream holds
\* e div W groups of W records each and the buffer the other e mod W records:
\* a group is written exactly at every W-th emit and takes the whole buffer.
\* After the loop one more group holds the remaining e mod W records, maybe
\* none, and the buffer is empty; 2500 records give groups of 1000, 1000, 500.
Thm_C5_FlushAtThreshold ==
    LET e == Advanced(temp_cursors)
        full == e \div WriteBufferLimit
    IN /\ pc = "merge" =>
             /\ Len(gam_out) = full
             /\ Len(output_buffer) = e % WriteBufferLimit
       /\ pc = "done" =>
             /\ Len(gam_out) = full + 1
             /\ Len(gam_out[full + 1]) = e % WriteBufferLimit
             /\ output_buffer = <<>>
       /\ \A g \in 1..full : Len(gam_out[g]) = WriteBufferLimit
       /\ Out \o output_buffer = SubSeq(files[1], 1, e)
       /\ (pc = "done" /\ e = 2500) =>
             [g \in 1..Len(gam_out) |-> Len(gam_out[g])] = <<1000, 1000, 500>>

\* one record more than the threshold merged: a group of W records written at
\* the W-th emit, and the forced group with the one remaining record
Wit_C5_ThresholdThenForced ==
    /\ pc = "done"
    /\ Advanced(temp_cursors) = WriteBufferLimit + 1
    /\ [g \in 1..Len(gam_out) |-> Len(gam_out[g])] = <<WriteBufferLimit, 1>>

\* C6: the sequence of derived keys of the output is the sequence of the
\* input's keys in non-decreasing order, which does not depend on the batch
\* size: runs with B = 1, B = input length and any other B give the same keys.
Thm_C6_BatchIndependent ==
    pc = "done" => Keys(Out) = KeysInOrder(Keys(gam_in))

\* every record its own run, on an unsorted input with two records of equal key
Wit_C6_BatchOfOne ==
    /\ pc = "done"
    /\ max_buf_size = 1
    /\ Len(gam_in) >= 3
    /\ ~IsSorted(gam_in)
    /\ Count(AlnA, gam_in) >= 1
    /\ Count(AlnB, gam_in) >= 1
    /\ Keys(Out) # Keys(gam_in)

\* lexicographic order on (identifier, orientation, offset), false before true
LexLess(a, b) ==
    \/ a.node_id < b.node_id
    \/ a.node_id = b.node_id /\ ~a.is_reverse /\ b.is_reverse
    \/ a.node_id = b.node_id /\ a.is_reverse = b.is_reverse /\ a.offset < b.offset

\* C7: less_than on Positions returns the lexicographic comparison of
\* (identifier, orientation, offset).
Thm_C7_LessThanLexicographic ==
    ret.call = "compare" =>
        \A i \in 1..3, j \in 1..3 : ret.less_than[i][j] = LexLess(args[i], args[j])

\* same identifier, orientation decides against the offsets
Wit_C7_OrientationDecides ==
    /\ ret.call = "compare"
    /\ args[1].node_id = args[2].node_id
    /\ ~args[1].is_reverse
    /\ args[2].is_reverse
    /\ args[1].offset > args[2].offset
    /\ ret.less_than[1][2]

\* C8: less_than is a strict weak ordering whose equivalence is equal_to:
\* irreflexive, transitive, with a transitive incomparability that holds
\* exactly when equal_to does.
Thm_C8_StrictWeakOrdering ==
    ret.call = "compare" =>
        LET lt(i, j) == ret.less_than[i][j]
            inc(i, j) == ~lt(i, j) /\ ~lt(j, i)
        IN /\ \A i \in 1..3 : ~lt(i, i)
           /\ \A i \in 1..3, j \in 1..3, k \in 1..3 :
                 /\ (lt(i, j) /\ lt(j, k)) => lt(i, k)
                 /\ (inc(i, j) /\ inc(j, k)) => inc(i, k)
           /\ \A i \in 1..3, j \in 1..3 : inc(i, j) <=> ret.equal_to[i][j]

\* two equal positions and a third one above them by its offset alone
Wit_C8_EqualAndGreater ==
    /\ ret.call = "compare"
    /\ ret.equal_to[1][2]
    /\ ~ret.less_than[1][2]
    /\ ~ret.less_than[2][1]
    /\ args[3].node_id = args[2].node_id
    /\ args[3].is_reverse = args[2].is_reverse
    /\ ret.less_than[2][3]
    /\ ret.less_than[1][3]

\* C9: greater_than(a, b) holds exactly when less_than(b, a) does, and for
\* equal positions neither holds in either direction.
Thm_C9_GreaterIsLessSwapped ==
    ret.call = "compare" =>
        \A i \in 1..3, j \in 1..3 :
            /\ ret.greater_than[i][j] = ret.less_than[j][i]
            /\ ret.equal_to[i][j] =>
                  /\ ~ret.greater_than[i][j]
                  /\ ~ret.less_than[i][j]
                  /\ ~ret.greater_than[j][i]
                  /\ ~ret.less_than[j][i]

\* greater by the orientation alone, against the offsets
Wit_C9_GreaterByOrientation ==
    /\ ret.call = "compare"
    /\ args[1].node_id = args[2].node_id
    /\ args[1].is_reverse
    /\ ~args[2].is_reverse
    /\ args[1].offset < args[2].offset
    /\ ret.greater_than[1][2]
    /\ ret.less_than[2][1]

\* C10: get_min_position returns the default Position for a path without
\* mappings, and otherwise the position of one of the mappings that no
\* mapping's position is less_than.
Thm_C10_MinPosition ==
    ret.call = "get_min_position" =>
        IF Len(path) = 0
        THEN ret.min = DefaultPosition
        ELSE /\ \E i \in 1..Len(path) : ret.min = path[i]
             /\ \A i \in 1..Len(path) : ~less_than(path[i], ret.min)

\* a path whose minimum is its last mapping, after a first improvement
Wit_C10_MinIsLast ==
    /\ ret.call = "get_min_position"
    /\ Len(path) = 3
    /\ less_than(path[2], path[1])
    /\ less_than(path[3], path[2])
    /\ ret.min = path[3]

\* C11: records with an empty path sort first. The key of an empty-path
\* record is not greater than the key get_min_position returns for any path,
\* two empty-path records are equivalent under less_than, and in the output no
\* record with another key than the default Position precedes a record with
\* an empty path.
Thm_C11_EmptyPathFirst ==
    /\ ret.call = "get_min_position" =>
          /\ ~greater_than(get_min_position(<<>>), ret.min)
          /\ ~less_than(ret.min, get_min_position(<<>>))
    /\ \A i \in 1..Len(gam_in), j \in 1..Len(gam_in) :
          (Len(gam_in[i]) = 0 /\ Len(gam_in[j]) = 0) =>
              ~less_than_Alignment(gam_in[i], gam_in[j])
    /\ \A i \in 1..Len(Out), j \in 1..Len(Out) :
          (i < j /\ Len(Out[j]) = 0) =>
              get_min_position_Alignment(Out[i]) = DefaultPosition

\* an input whose empty-path records come last, written with them first
Wit_C11_UnalignedMovedToFront ==
    /\ pc = "done"
    /\ Len(gam_in) >= 4
    /\ Len(gam_in[1]) > 0
    /\ Len(gam_in[2]) > 0
    /\ Len(gam_in[Len(gam_in)]) = 0
    /\ Len(gam_in[Len(gam_in) - 1]) = 0
    /\ Len(Out) = Len(gam_in)
    /\ Len(Out[1]) = 0
    /\ Len(Out[2]) = 0

\* C12: a storage error is fatal. Once a temporary file with records in it
\* could not be opened for reading, stream_sort emits no record and does not
\* complete the merge.
CE_C12_StorageErrorFatal ==
    (\E c \in 1..Len(temp_cursors) :
        ~temp_cursors[c].good /\ Len(files[temp_cursors[c].file]) > 0) =>
        /\ pc # "done"
        /\ output_buffer = <<>>
        /\ gam_out = <<>>

\* C13: in every iteration of the merge loop the record emitted, the current
\* record of the cursor that is popped and advanced, has a key that is not
\* greater than the key of the current record of any cursor that has one.
Thm_C13_WinnerIsMinimum ==
    [][(pc = "merge" /\ pc' = "merge") =>
          \A w \in 1..Len(temp_cursors) :
              temp_cursors'[w] # temp_cursors[w] =>
                  \A c \in 1..Len(temp_cursors) :
                      has_next(temp_cursors[c]) =>
                          ~greater_than(
                              get_min_position_Alignment(deref(temp_cursors[w])),
                              get_min_position_Alignment(deref(temp_cursors[c])))]_vars

\* the merge has emitted records and the queue still holds cursors with
\* current records whose keys are out of order in the container
Wit_C13_QueueOutOfKeyOrder ==
    /\ pc = "merge"
    /\ Advanced(temp_cursors) >= 2
    /\ \E i \in 1..Len(temp_files), j \in 1..Len(temp_files) :
          /\ i < j
          /\ has_next(temp_cursors[temp_files[i]])
          /\ has_next(temp_cursors[temp_files[j]])
          /\ less_than_Alignment(deref(temp_cursors[temp_files[j]]),
                                 deref(temp_cursors[temp_files[i]]))

\* C14: every temporary file holds its records in non-decreasing key order,
\* and a file that has been written is never changed: a step only adds files.
Thm_C14_RunsSortedAndImmutable ==
    [][/\ \A f \in 1..Len(files') : IsSorted(files'[f])
       /\ Len(files') >= Len(files)
       /\ \A f \in 1..Len(files) : files'[f] = files[f]]_vars

\* an unsorted full batch of three records was written sorted, as the first of
\* several files, and the merge has read them all
Wit_C14_UnsortedBatchSpilled ==
    /\ pc = "done"
    /\ max_buf_size = 3
    /\ Len(files) >= 2
    /\ Len(files[1]) = 3
    /\ ~IsSorted(SubSeq(gam_in, 1, 3))
    /\ files[1] # SubSeq(gam_in, 1, 3)
    /\ Len(files[2]) >= 1

\* the record a step appended to the output, buffered or written
Emitted(out, buffer) ==
    LET all == Records(out) \o buffer IN all[Len(all)]

\* C15: the cursor that an iteration of the merge loop pops, reads and
\* advances has a current record, and the record emitted is that record.
Thm_C15_WinnerHasRecord ==
    [][(pc = "merge" /\ pc' = "merge") =>
          \A w \in 1..Len(temp_cursors) :
              temp_cursors'[w] # temp_cursors[w] =>
                  /\ has_next(temp_cursors[w])
                  /\ Emitted(gam_out', output_buffer') = deref(temp_cursors[w])]_vars

\* the cursor of a file without records and a depleted cursor's file beside
\* a cursor that still has records, after the merge has emitted records
Wit_C15_EmptyRunInQueue ==
    /\ pc = "merge"
    /\ Advanced(temp_cursors) >= 2
    /\ \E i \in 1..Len(temp_files) : Len(files[temp_cursors[temp_files[i]].file]) = 0
    /\ \E i \in 1..Len(temp_files) : has_next(temp_cursors[temp_files[i]])
    /\ \E c \in 1..Len(temp_cursors) :
          ~has_next(temp_cursors[c]) /\ Len(files[temp_cursors[c].file]) > 0

\* C16: every cursor in the priority queue has a current record, and when
\* the merge loop has ended the queue is empty.
CE_C16_FrontierHoldsOnlyLiveCursors ==
    /\ \A i \in 1..Len(temp_files) : has_next(temp_cursors[temp_files[i]])
    /\ pc = "done" => temp_files = <<>>

\* the number of records in all files together
RECURSIVE TotalRecords(_)
TotalRecords(fs) ==
    IF fs = <<>> THEN 0
    ELSE Len(fs[Len(fs)]) + TotalRecords(SubSeq(fs, 1, Len(fs) - 1))

\* C17: the merge loop terminates. Each iteration emits one record and
\* advances one cursor by one record; when the loop has ended the cursors
\* have been advanced once for every record of every file, so the loop ran
\* that many iterations, and no cursor has a current record.
Thm_C17_MergeTerminates ==
    /\ <>(pc = "done")
    /\ [](pc = "done" =>
            /\ Len(temp_cursors) = Len(files)
            /\ Advanced(temp_cursors) = TotalRecords(files)
            /\ Len(Out) = TotalRecords(files)
            /\ \A c \in 1..Len(temp_cursors) : ~has_next(temp_cursors[c]))
    /\ [][(pc = "merge" /\ pc' = "merge") =>
            /\ Len(Records(gam_out') \o output_buffer')
                  = Len(Records(gam_out) \o output_buffer) + 1
            /\ \E w \in 1..Len(temp_cursors) :
                  /\ temp_cursors'[w] = get_next(temp_cursors[w])
                  /\ \A c \in 1..Len(temp_cursors) :
                        c # w => temp_cursors'[c] = temp_cursors[c]]_vars

\* a merge of four records from at least three files with records has ended
Wit_C17_ThreeRunsMerged ==
    /\ pc = "done"
    /\ TotalRecords(files) = 4
    /\ Cardinality({f \in 1..Len(files) : Len(files[f]) > 0}) >= 3
    /\ Advanced(temp_cursors) = 4

\* C18: the batch never holds more than B records. With each record read the
\* batch grows to at most B; when it reaches B it is written, sorted, as a
\* new file and cleared within the same callback, so that it holds fewer
\* than B records whenever the next record is read.
Thm_C18_BatchBounded ==
    /\ [](Len(input_buffer) < max_buf_size)
    /\ [][in_pos' = in_pos + 1 =>
            LET buffered == Append(input_buffer, gam_in[in_pos + 1])
            IN /\ Len(buffered) <= max_buf_size
               /\ IF Len(buffered) = max_buf_size
                  THEN /\ input_buffer' = <<>>
                       /\ Len(files') = Len(files) + 1
                       /\ Len(files'[Len(files')]) = max_buf_size
                       /\ IsSorted(files'[Len(files')])
                       /\ \A r \in Alignments :
                             Count(r, files'[Len(files')]) = Count(r, buffered)
                  ELSE /\ input_buffer' = buffered
                       /\ files' = files]_vars

\* two full batches of two records were spilled, the first one unsorted in
\* the input, and a fifth record is still to be read
Wit_C18_TwoFullBatches ==
    /\ pc = "read"
    /\ max_buf_size = 2
    /\ in_pos = 4
    /\ Len(gam_in) = 5
    /\ Len(files) = 2
    /\ input_buffer = <<>>
    /\ ~IsSorted(SubSeq(gam_in, 1, 2))

\* the queue q without the cursor k
Without(q, k) == SelectSeq(q, LAMBDA x : x # k)

\* C19: a cursor is never advanced while it is in the priority queue, and no
\* cursor is in the queue twice. The one cursor an iteration advances is the
\* one it popped: the other cursors keep their place in the queue and their
\* current record, and the advanced cursor is in the queue afterwards only
\* as the element pushed last, and only if it has a current record.
Thm_C19_AdvancedOnlyOutsideQueue ==
    /\ [](\A i \in 1..Len(temp_files), j \in 1..Len(temp_files) :
             i # j => temp_files[i] # temp_files[j])
    /\ [][(pc = "merge" /\ pc' = "merge") =>
            \A k \in 1..Len(temp_cursors) :
                temp_cursors'[k] # temp_cursors[k] =>
                    /\ \E i \in 1..Len(temp_files) :
                          temp_files[i] = k /\ IsTop(temp_files, i)
                    /\ Without(temp_files', k) = Without(temp_files, k)
                    /\ \A c \in 1..Len(temp_cursors) :
                          c # k => temp_cursors'[c] = temp_cursors[c]
                    /\ \A i \in 1..Len(temp_files') :
                          temp_files'[i] = k =>
                              /\ i = Len(temp_files')
                              /\ temp_cursors'[k].idx <= Len(files[temp_cursors'[k].file])]_vars

\* a cursor that was advanced and pushed back, beside a cursor that is still
\* on its first record
Wit_C19_ReinsertedCursor ==
    /\ pc = "merge"
    /\ \E i \in 1..Len(temp_files), j \in 1..Len(temp_files) :
          /\ temp_cursors[temp_files[i]].idx > 1
          /\ has_next(temp_cursors[temp_files[i]])
          /\ temp_cursors[temp_files[j]].idx = 1
          /\ has_next(temp_cursors[temp_files[j]])

\* the records dumb_sort has written
DumbOut == Records(dumb_gam_out)

SameRecords(s, t) ==
    /\ Len(s) = Len(t)
    /\ \A r \in Alignments : Count(r, s) = Count(r, t)

\* C20: dumb_sort and stream_sort agree. On the same input each writes the
\* records of the input, every one as often as the input holds it, in
\* non-decreasing key order, and the two outputs have the same sequence of
\* keys.
Thm_C20_DumbAndStreamAgree ==
    /\ pc \in {"dumb_done", "read", "open", "merge", "done"} =>
          /\ IsSorted(DumbOut)
          /\ SameRecords(DumbOut, gam_in)
    /\ pc = "done" =>
          /\ IsSorted(Out)
          /\ SameRecords(Out, gam_in)
          /\ Keys(Out) = Keys(DumbOut)

\* both sorts have finished on an unsorted input of four records with two
\* records of equal key, and wrote them in different orders
Wit_C20_BothFinished ==
    /\ pc = "done"
    /\ Len(gam_in) = 4
    /\ ~IsSorted(gam_in)
    /\ Count(AlnA, gam_in) >= 1
    /\ Count(AlnB, gam_in) >= 1
    /\ Len(files) >= 3
    /\ Out # DumbOut
    /\ Keys(Out) = Keys(DumbOut)

====
